---------------------------- MODULE Spec2Model ----------------------------
(***************************************************************************)
(* A model of backup.py: the Fitbit backup script.                         *)
(*                                                                         *)
(*   Spec       main(): get_latest_data, to_csv, commit_csv, os.remove     *)
(*   SpecRow    get_row_of_data over every combination of source payloads  *)
(*   SpecToken  refresh_cb over the process environment and the .env file  *)
(*                                                                         *)
(* Python dicts are functions over a set of key strings.  A DataFrame is   *)
(* a sequence of rows, each a record over the index "Date" and the eight   *)
(* metric columns, with NaN in the columns a row does not have.  Dates are *)
(* day numbers.                                                            *)
(***************************************************************************)
EXTENDS Integers, Sequences, FiniteSets, TLC

VARIABLES
    \* ---- the world main() runs in
    published,    \* health/fitbit.csv on the remote's main branch (CSV lines)
    today,        \* datetime.today(), as a day number
    ver,          \* what the upstream API currently reports for a synced day
    quiet,        \* the days for which the upstream API has nothing usable
    \* ---- one invocation of main()
    pc,           \* where main() is
    df,           \* the accumulator of get_latest_data
    dateRange,    \* date_range of get_latest_data
    i,            \* position of the for loop in dateRange (1-based)
    requests,     \* the counter of get_latest_data
    localCsv,     \* the file fitbit.csv in the working directory
    \* ---- history of the invocation (what the claims speak about)
    issued,       \* API calls actually sent upstream in this invocation
    calls,        \* the dates get_row_of_data was invoked with, in order
    fresh,        \* date -> the row concatenated for it in this invocation
    limited,      \* the loop was ended by HTTPTooManyRequests
    thrown,       \* the exception get_row_of_data raised, "" if none
    raised,       \* the exception that ended main(), "" if none
    tracked,      \* the clone's copy of health/fitbit.csv before copyfile
    cloneCommits, \* commits created in the scratch clone by commit_csv
    pushed,       \* commit_csv pushed to origin
    stable,       \* the previous invocation completed without a rate-limit
                  \* stop and neither today nor the source changed since
    runs,         \* invocations of main() so far
    \* ---- SpecRow
    rPayload, rDate, rResult, rDone,
    \* ---- SpecToken
    environ,      \* os.environ, the three FITBIT_ token keys
    dotfile,      \* the .env file, the same keys
    token,        \* the argument of the last refresh_cb
    before,       \* os.environ when the last refresh_cb was entered
    written       \* the keys the last refresh_cb passed to dotenv.set_key

mainVars == <<published, today, ver, quiet, pc, df, dateRange, i, requests,
              localCsv, issued, calls, fresh, limited, thrown, raised, tracked,
              cloneCommits, pushed, stable, runs>>
rowVars == <<rPayload, rDate, rResult, rDone>>
tokVars == <<environ, dotfile, token, before, written>>
vars == <<mainVars, rowVars, tokVars>>

-----------------------------------------------------------------------------
(* Bounds *)
MaxDay == 9        \* the last day of the calendar
FirstToday == 8    \* today at the first invocation
MaxVal == 2        \* metric values range over 0..MaxVal
MaxQuiet == 1      \* at most this many quiet days at a time
MaxRuns == 2       \* invocations of main() in one behaviour of Spec
MaxTok == 2        \* token values 1..MaxTok

(* Program constants *)
Lookback == 7          \* df.index[-7]
RequestsPerRow == 4    \* return df, 4

NaN == 0 - 1           \* the missing value pd.concat fills in

-----------------------------------------------------------------------------
(* Python dict helpers *)
EmptyDict == [k \in {} |-> 0]
\* a |= b
Merge(a, b) == [k \in (DOMAIN a) \cup (DOMAIN b) |->
                    IF k \in DOMAIN b THEN b[k] ELSE a[k]]
\* all(v > 0 for v in d.values())
AllPositive(d) == \A k \in DOMAIN d : d[k] > 0

-----------------------------------------------------------------------------
(* The upstream API's answers for one date *)
SleepKeys == {"totalMinutesAsleep", "totalSleepRecords", "totalTimeInBed"}
BodyKeys == {"bmi", "fat", "weight"}

\* client.sleep(date)["summary"]: the three totals and the "stages" breakdown
\* (a nested dict, modelled by 0: it is no number at all)
SleepSummaries ==
    {Merge(s, [stages |-> 0]) : s \in [SleepKeys -> 0..MaxVal]}
\* client.time_series("activities/steps", ...)["activities-steps"][0]
StepsEntries(date) == [dateTime : {date}, value : 0..MaxVal]
\* client.body(date)["body"]
BodyDicts == [BodyKeys -> 0..MaxVal]
\* client.time_series("activities/heart", ...)["activities-heart"][0]["value"]
HeartValues == {EmptyDict} \cup [{"restingHeartRate"} -> 0..MaxVal]

Payloads(date) == [sleep : SleepSummaries, steps : StepsEntries(date),
                   body : BodyDicts, heart : HeartValues]

\* A client call either answers or raises: at = 0 means every call answers,
\* at = k means the k-th call of the row raises exc.
NoFailure == [at |-> 0, exc |-> ""]
Failures == {NoFailure} \cup
            [at : 1..RequestsPerRow, exc : {"HTTPTooManyRequests", "Exception"}]

-----------------------------------------------------------------------------
(* get_sleep_data .. get_heart_data: each returns the new to_df *)
\* day_of_sleep.pop("stages", None)
PopStages(summary) == [k \in (DOMAIN summary) \ {"stages"} |-> summary[k]]

get_sleep_data(summary, to_df) ==
    LET day_of_sleep == PopStages(summary)
    IN  IF AllPositive(day_of_sleep) THEN Merge(to_df, day_of_sleep) ELSE to_df

get_steps_data(day_of_steps, to_df) ==
    IF day_of_steps.value # 0 THEN Merge(to_df, day_of_steps) ELSE to_df

get_body_data(day_of_body, to_df) ==
    IF AllPositive(day_of_body) THEN Merge(to_df, day_of_body) ELSE to_df

\* .get("restingHeartRate") is None when the key is absent; None and 0 are falsy
get_heart_data(value, to_df) ==
    IF "restingHeartRate" \in DOMAIN value /\ value["restingHeartRate"] # 0
    THEN Merge(to_df, [restingHeartRate |-> value["restingHeartRate"]])
    ELSE to_df

(* get_row_of_data *)
ColumnName(k) ==
    CASE k = "dateTime" -> "Date"
      [] k = "value" -> "Steps"
      [] k = "bmi" -> "BMI"
      [] k = "fat" -> "Body Fat %"
      [] k = "weight" -> "Weight"
      [] k = "totalMinutesAsleep" -> "Total Sleep (minutes)"
      [] k = "totalSleepRecords" -> "Total Sleep Records"
      [] k = "totalTimeInBed" -> "Total Time in Bed (minutes)"
      [] k = "restingHeartRate" -> "Resting Heart Rate"
      [] OTHER -> k

\* df.rename(columns=columns)
Rename(d) ==
    [c \in {ColumnName(k) : k \in DOMAIN d} |->
        d[CHOOSE k \in DOMAIN d : ColumnName(k) = c]]

\* The result of one call: exc = "" when it returns, else the exception it
\* raises; sent = the client calls it made; hasRow = it returned a DataFrame
\* (row, a dict holding the index "Date" and the columns), not None.
RowResult(exc, sent, n, hasRow, row) ==
    [exc |-> exc, sent |-> sent, n |-> n, hasRow |-> hasRow, row |-> row]

get_row_of_data(payload, fail) ==
    LET d1 == get_sleep_data(payload.sleep, EmptyDict)
        d2 == get_steps_data(payload.steps, d1)
        d3 == get_body_data(payload.body, d2)
        to_df == get_heart_data(payload.heart, d3)
        renamed == Rename(to_df)
    IN  IF fail.at # 0
        THEN RowResult(fail.exc, fail.at, 0, FALSE, EmptyDict)
        ELSE IF to_df = EmptyDict
        THEN RowResult("", RequestsPerRow, RequestsPerRow, FALSE, EmptyDict)
        ELSE IF "Date" \notin DOMAIN renamed      \* df["Date"]
        THEN RowResult("KeyError", RequestsPerRow, 0, FALSE, EmptyDict)
        ELSE RowResult("", RequestsPerRow, RequestsPerRow, TRUE, renamed)

-----------------------------------------------------------------------------
(* DataFrames and the CSV file *)
ColumnOrder == <<"Date", "Steps", "BMI", "Body Fat %", "Weight",
                 "Total Sleep (minutes)", "Total Sleep Records",
                 "Total Time in Bed (minutes)", "Resting Heart Rate">>
Columns == {ColumnOrder[j] : j \in 1..Len(ColumnOrder)}

\* pd.concat aligns the row on the frame's columns and fills NaN
Reindex(row) == [c \in Columns |-> IF c \in DOMAIN row THEN row[c] ELSE NaN]
Concat(frame, row) == Append(frame, Reindex(row))

\* df[~df.index.duplicated(keep="last")]
Duplicated(frame, k) ==
    \E j \in (k + 1)..Len(frame) : frame[j]["Date"] = frame[k]["Date"]
\* keep="first" in place of keep="last"
DropDuplicatesKeepFirst(frame) ==
    LET F[k \in 0..Len(frame)] ==
            IF k = 0 THEN <<>>
            ELSE IF \E j \in 1..(k - 1) : frame[j]["Date"] = frame[k]["Date"]
                 THEN F[k - 1]
                 ELSE Append(F[k - 1], frame[k])
    IN  F[Len(frame)]
DropDuplicates(frame) ==
    LET F[k \in 0..Len(frame)] ==
            IF k = 0 THEN <<>>
            ELSE IF Duplicated(frame, k) THEN F[k - 1]
                 ELSE Append(F[k - 1], frame[k])
    IN  F[Len(frame)]

\* latest_df.to_csv("fitbit.csv"): one line per row, in row order, the
\* cells in column order
Line(row) == [j \in 1..Len(ColumnOrder) |-> row[ColumnOrder[j]]]
to_csv(frame) == [k \in 1..Len(frame) |-> Line(frame[k])]
\* pd.read_csv(...); df.set_index("Date")
read_csv(lines) ==
    [k \in 1..Len(lines) |->
        [c \in Columns |->
            lines[k][CHOOSE j \in 1..Len(ColumnOrder) : ColumnOrder[j] = c]]]

\* df.index[-7] raises IndexError on a frame of fewer than 7 rows
HasLatestDate(frame) == Len(frame) >= Lookback
LatestDate(frame) == frame[Len(frame) - Lookback + 1]["Date"]

\* pd.date_range(start, end, freq="D")
DateRange(start, end) ==
    IF start > end THEN <<>> ELSE [k \in 1..(end - start + 1) |-> start + k - 1]

\* no except clause at all
CaughtNothing(exc) == FALSE
\* a bare "except Exception"
CaughtAnything(exc) == TRUE
\* except fitbit.exceptions.HTTPTooManyRequests
Caught(exc) == exc = "HTTPTooManyRequests"

-----------------------------------------------------------------------------
(* The upstream source *)
Synced(date, v) ==
    [sleep |-> [k \in SleepKeys \cup {"stages"} |-> IF k = "stages" THEN 0 ELSE v],
     steps |-> [dateTime |-> date, value |-> v],
     body |-> [k \in BodyKeys |-> v],
     heart |-> [restingHeartRate |-> v]]
\* a day the tracker has not synced: nothing at all, or sleep without steps
Unsynced(date) ==
    { [Synced(date, 0) EXCEPT !.heart = EmptyDict],
      [Synced(date, 1) EXCEPT !.steps.value = 0] }
SourcePayloads(date) ==
    IF date \in quiet THEN Unsynced(date) ELSE {Synced(date, ver)}

\* the row get_row_of_data builds from a synced day
SyncedRow(date, v) == Reindex(get_row_of_data(Synced(date, v), NoFailure).row)
RowsOf(S, v) ==
    LET F[d \in (0 - 1)..MaxDay] ==
            IF d < 0 THEN <<>>
            ELSE IF d \in S THEN Append(F[d - 1], SyncedRow(d, v)) ELSE F[d - 1]
    IN  F[MaxDay]

NoFile == [exists |-> FALSE, content |-> <<>>]
File(content) == [exists |-> TRUE, content |-> content]
Terminal == {"idle", "done", "aborted"}

-----------------------------------------------------------------------------
(* main() *)
NoRows == [d \in {} |-> 0]

\* main() up to the for loop of get_latest_data: read the published CSV,
\* take the 7th row from the end, build the date range.
StartRun(limit) ==
    /\ pc \in Terminal
    /\ runs < limit
    /\ runs' = runs + 1
    /\ LET frame == read_csv(published)
       IN  IF HasLatestDate(frame)
           THEN LET range == DateRange(LatestDate(frame), today)
                IN  /\ df' = frame
                    /\ dateRange' = range
                    /\ i' = 1
                    /\ pc' = IF range = <<>> THEN "return" ELSE "loop"
                    /\ raised' = ""
           ELSE /\ df' = <<>>
                /\ dateRange' = <<>>
                /\ i' = 0
                /\ pc' = "aborted"
                /\ raised' = "IndexError"
    /\ requests' = 0
    /\ issued' = 0
    /\ calls' = <<>>
    /\ fresh' = NoRows
    /\ limited' = FALSE
    /\ thrown' = ""
    /\ UNCHANGED <<published, today, ver, quiet, localCsv, tracked,
                   cloneCommits, pushed, stable>>

\* One iteration of the for loop: get_row_of_data, the counter, pd.concat;
\* the except clause when the row builder raises.  An exception that is not
\* caught ends main(), and its locals with it.
FetchRow ==
    /\ pc = "loop"
    /\ \E payload \in SourcePayloads(dateRange[i]), fail \in Failures :
        LET r == get_row_of_data(payload, fail)
        IN  /\ calls' = Append(calls, dateRange[i])
            /\ issued' = issued + r.sent
            /\ thrown' = r.exc
            /\ IF r.exc = ""
               THEN /\ requests' = requests + r.n
                    /\ df' = IF r.hasRow THEN Concat(df, r.row) ELSE df
                    /\ fresh' = IF r.hasRow
                                THEN [d \in (DOMAIN fresh) \cup {r.row["Date"]} |->
                                        IF d = r.row["Date"] THEN Reindex(r.row)
                                        ELSE fresh[d]]
                                ELSE fresh
                    /\ i' = i + 1
                    /\ pc' = IF i + 1 > Len(dateRange) THEN "return" ELSE "loop"
                    /\ UNCHANGED <<limited, raised, dateRange>>
               ELSE IF Caught(r.exc)
               THEN /\ limited' = TRUE
                    /\ pc' = "return"
                    /\ UNCHANGED <<requests, df, fresh, i, raised, dateRange>>
               ELSE /\ raised' = r.exc
                    /\ pc' = "aborted"
                    /\ df' = <<>>
                    /\ dateRange' = <<>>
                    /\ i' = 0
                    /\ requests' = 0
                    /\ UNCHANGED <<limited, fresh>>
    /\ UNCHANGED <<published, today, ver, quiet, localCsv, tracked,
                   cloneCommits, pushed, stable, runs>>

\* df = df[~df.index.duplicated(keep="last")]; return df, requests
Return ==
    /\ pc = "return"
    /\ df' = DropDuplicates(df)
    /\ dateRange' = <<>>
    /\ i' = 0
    /\ pc' = "write"
    /\ UNCHANGED <<published, today, ver, quiet, requests, localCsv, issued,
                   calls, fresh, limited, thrown, raised, tracked,
                   cloneCommits, pushed, stable, runs>>

\* latest_df.to_csv("fitbit.csv")
WriteCsv ==
    /\ pc = "write"
    /\ localCsv' = File(to_csv(df))
    /\ pc' = "commit"
    /\ UNCHANGED <<published, today, ver, quiet, df, dateRange, i, requests,
                   issued, calls, fresh, limited, thrown, raised, tracked,
                   cloneCommits, pushed, stable, runs>>

\* commit.stats.files: the files the commit changes against its parent
StatsFiles(old, new) == IF old # new THEN {"health/fitbit.csv"} ELSE {}
\* push whatever the commit holds
AlwaysPush(files) == TRUE
\* if not commit.stats.files: ... else: push
ShouldPush(files) == files # {}

\* commit_csv(): clone, copy the file in, index.add, index.commit, then push
\* unless the commit changes no file; the scratch clone is dropped.
CommitCsv ==
    /\ pc = "commit"
    /\ tracked' = published
    /\ cloneCommits' = cloneCommits + 1
    /\ IF ShouldPush(StatsFiles(published, localCsv.content))
       THEN /\ pushed' = TRUE
            /\ published' = localCsv.content
       ELSE UNCHANGED <<pushed, published>>
    /\ stable' = ~limited
    /\ pc' = "cleanup"
    /\ UNCHANGED <<today, ver, quiet, df, dateRange, i, requests, localCsv,
                   issued, calls, fresh, limited, thrown, raised, runs>>

\* os.remove("fitbit.csv"); main() returns and the process ends
RemoveCsv ==
    /\ pc = "cleanup"
    /\ localCsv' = NoFile
    /\ pc' = "done"
    /\ df' = <<>>
    /\ requests' = 0
    /\ issued' = 0
    /\ calls' = <<>>
    /\ fresh' = NoRows
    /\ limited' = FALSE
    /\ tracked' = <<>>
    /\ cloneCommits' = 0
    /\ pushed' = FALSE
    /\ UNCHANGED <<published, today, ver, quiet, dateRange, i, thrown,
                   raised, stable, runs>>

(* The environment, between invocations *)
\* the next day
Tick ==
    /\ pc \in Terminal
    /\ today < MaxDay
    /\ today' = today + 1
    /\ stable' = FALSE
    /\ UNCHANGED <<published, ver, quiet, pc, df, dateRange, i, requests,
                   localCsv, issued, calls, fresh, limited, thrown, raised,
                   tracked, cloneCommits, pushed, runs>>

\* the tracker syncs: the upstream data is revised, or a quiet day fills in
SourceChange ==
    /\ pc \in Terminal
    /\ \/ ver < MaxVal /\ ver' = ver + 1 /\ quiet' = quiet
       \/ \E d \in quiet : quiet' = quiet \ {d} /\ ver' = ver
    /\ stable' = FALSE
    /\ UNCHANGED <<published, today, pc, df, dateRange, i, requests,
                   localCsv, issued, calls, fresh, limited, thrown, raised,
                   tracked, cloneCommits, pushed, runs>>

\* the days the tracker may not have synced yet at the start: the latest
QuietSets == SUBSET ((FirstToday - MaxQuiet + 1)..FirstToday)

\* the published file at the start: a week up to yesterday, a week up to
\* today, a week with a missing day, or a file younger than the lookback
InitDateSets ==
    LET last == FirstToday - 1
    IN  { (last - 6)..last,
          (last - 5)..FirstToday,
          ((last - 7)..last) \ {last - 4},
          (last - 2)..last }

MainStart ==
    /\ today = FirstToday
    /\ ver = 1
    /\ pc = "idle"
    /\ df = <<>>
    /\ dateRange = <<>>
    /\ i = 0
    /\ requests = 0
    /\ localCsv = NoFile
    /\ issued = 0
    /\ calls = <<>>
    /\ fresh = NoRows
    /\ limited = FALSE
    /\ thrown = ""
    /\ raised = ""
    /\ tracked = <<>>
    /\ cloneCommits = 0
    /\ pushed = FALSE
    /\ stable = FALSE
    /\ runs = 0

MainInit ==
    /\ published \in {to_csv(RowsOf(S, 1)) : S \in InitDateSets}
    /\ quiet \in QuietSets
    /\ MainStart

MainIdle ==
    /\ published = <<>>
    /\ quiet = {}
    /\ MainStart

-----------------------------------------------------------------------------
(* SpecRow: get_row_of_data on every payload *)
RowDates == {FirstToday, MaxDay}
RowInit ==
    /\ rDate \in RowDates
    /\ rPayload \in Payloads(rDate)
    /\ rResult = RowResult("", 0, 0, FALSE, EmptyDict)
    /\ rDone = FALSE

BuildRow ==
    /\ ~rDone
    /\ rResult' = get_row_of_data(rPayload, NoFailure)
    /\ rDone' = TRUE
    /\ UNCHANGED <<rPayload, rDate>>

RowIdle ==
    /\ rDate = FirstToday
    /\ rPayload = Synced(FirstToday, 1)
    /\ rResult = RowResult("", 0, 0, FALSE, EmptyDict)
    /\ rDone = TRUE

-----------------------------------------------------------------------------
(* SpecToken: refresh_cb *)
ACCESS == "FITBIT_ACCESS_TOKEN"
REFRESH == "FITBIT_REFRESH_TOKEN"
EXPIRES == "FITBIT_EXPIRES_AT"
TokenKeys == {ACCESS, REFRESH, EXPIRES}

\* str(n), as the sequence of decimal digits
RECURSIVE str(_)
str(n) == IF n < 10 THEN <<n>> ELSE Append(str(n \div 10), n % 10)

\* what the keys hold: token strings are 1..MaxTok, FITBIT_EXPIRES_AT is text
Stores ==
    { [k \in TokenKeys |-> IF k = ACCESS THEN t[1]
                           ELSE IF k = REFRESH THEN t[2] ELSE str(t[3])] :
        t \in (1..MaxTok) \X (1..MaxTok) \X (1..MaxTok) }
Tokens == [access_token : 1..MaxTok, refresh_token : 1..MaxTok,
           expires_at : 1..MaxTok]

\* dotenv.set_key(".env", key, value)
set_key(file, key, value) ==
    [k \in (DOMAIN file) \cup {key} |-> IF k = key THEN value ELSE file[k]]
\* dotenv.load_dotenv(override=...): copy the file's keys into os.environ,
\* over the values already there only when override is set
load_dotenv(env, file, override) ==
    [k \in (DOMAIN env) \cup (DOMAIN file) |->
        IF k \in DOMAIN file /\ (override \/ k \notin DOMAIN env)
        THEN file[k] ELSE env[k]]
\* no comparison before the write
AlwaysWrite(env, key, value) == TRUE
\* os.environ.get(key) != value
NeedsWrite(env, key, value) == key \notin DOMAIN env \/ env[key] # value

\* main(): dotenv.load_dotenv()
LoadDotenv ==
    /\ written = {"start"}
    /\ environ' = load_dotenv(environ, dotfile, FALSE)
    /\ before' = environ'
    /\ written' = {}
    /\ UNCHANGED <<dotfile, token>>

refresh_cb(tok) ==
    /\ written # {"start"}
    /\ LET wa == NeedsWrite(environ, ACCESS, tok.access_token)
           wr == NeedsWrite(environ, REFRESH, tok.refresh_token)
           f1 == IF wa THEN set_key(dotfile, ACCESS, tok.access_token)
                 ELSE dotfile
           f2 == IF wr THEN set_key(f1, REFRESH, tok.refresh_token) ELSE f1
           f3 == set_key(f2, EXPIRES, str(tok.expires_at))
       IN  /\ dotfile' = f3
           /\ environ' = load_dotenv(environ, f3, TRUE)
           /\ written' = (IF wa THEN {ACCESS} ELSE {})
                           \cup (IF wr THEN {REFRESH} ELSE {}) \cup {EXPIRES}
    /\ before' = environ
    /\ token' = tok

RefreshCb == \E tok \in Tokens : refresh_cb(tok)

\* the process starts with the token keys unset, or set by its caller
TokInit ==
    /\ dotfile \in Stores
    /\ environ \in {EmptyDict} \cup Stores
    /\ token = [access_token |-> 1, refresh_token |-> 1, expires_at |-> 1]
    /\ before = environ
    /\ written = {"start"}

TokIdle ==
    /\ dotfile = EmptyDict
    /\ environ = EmptyDict
    /\ token = [access_token |-> 1, refresh_token |-> 1, expires_at |-> 1]
    /\ before = EmptyDict
    /\ written = {}

-----------------------------------------------------------------------------
(* Specifications *)
Init == MainInit /\ RowIdle /\ TokIdle
Next ==
    \/ StartRun(MaxRuns) /\ UNCHANGED <<rowVars, tokVars>>
    \/ FetchRow /\ UNCHANGED <<rowVars, tokVars>>
    \/ Return /\ UNCHANGED <<rowVars, tokVars>>
    \/ WriteCsv /\ UNCHANGED <<rowVars, tokVars>>
    \/ CommitCsv /\ UNCHANGED <<rowVars, tokVars>>
    \/ RemoveCsv /\ UNCHANGED <<rowVars, tokVars>>
    \/ Tick /\ UNCHANGED <<rowVars, tokVars>>
    \/ SourceChange /\ UNCHANGED <<rowVars, tokVars>>
Spec == Init /\ [][Next]_vars

\* Spec with one more invocation: a run, a change, a run and its re-run
NextRerun ==
    \/ StartRun(MaxRuns + 1) /\ UNCHANGED <<rowVars, tokVars>>
    \/ FetchRow /\ UNCHANGED <<rowVars, tokVars>>
    \/ Return /\ UNCHANGED <<rowVars, tokVars>>
    \/ WriteCsv /\ UNCHANGED <<rowVars, tokVars>>
    \/ CommitCsv /\ UNCHANGED <<rowVars, tokVars>>
    \/ RemoveCsv /\ UNCHANGED <<rowVars, tokVars>>
    \/ Tick /\ UNCHANGED <<rowVars, tokVars>>
    \/ SourceChange /\ UNCHANGED <<rowVars, tokVars>>
SpecRerun == Init /\ [][NextRerun]_vars

InitRow == MainIdle /\ RowInit /\ TokIdle
NextRow == BuildRow /\ UNCHANGED <<mainVars, tokVars>>
SpecRow == InitRow /\ [][NextRow]_vars

InitToken == MainIdle /\ RowIdle /\ TokInit
NextToken ==
    \/ LoadDotenv /\ UNCHANGED <<mainVars, rowVars>>
    \/ RefreshCb /\ UNCHANGED <<mainVars, rowVars>>
SpecToken == InitToken /\ [][NextToken]_vars

-----------------------------------------------------------------------------
(* Properties.  While main() is between StartRun and CommitCsv, published  *)
(* is the baseline get_latest_data read.                                   *)
Baseline == read_csv(published)
UniqueDates(frame) ==
    \A a, b \in 1..Len(frame) : a # b => frame[a]["Date"] # frame[b]["Date"]
Ascending(frame) ==
    \A a, b \in 1..Len(frame) : a < b => frame[a]["Date"] < frame[b]["Date"]
Returned == pc = "write"

\* C1: when get_latest_data has returned, the dataset holds at most one row
\* per date, and the row of every date fetched with a record in this run is
\* the freshly fetched record, not the baseline's copy.
C1_FreshRowSurvives ==
    Returned =>
        /\ UniqueDates(df)
        /\ \A d \in DOMAIN fresh :
             \E k \in 1..Len(df) : df[k]["Date"] = d /\ df[k] = fresh[d]
C1_Witness ==
    /\ Returned
    /\ \E d \in DOMAIN fresh :
         \E k \in 1..Len(Baseline) :
            Baseline[k]["Date"] = d /\ Baseline[k] # fresh[d]

\* C2: a rate-limit error at date N does not end main(): the records merged
\* are exactly those of dates 1..N-1, nothing of date N or later, and main()
\* writes the CSV and runs commit_csv.
C2_RateLimitKeepsPartial ==
    thrown = "HTTPTooManyRequests" =>
        /\ raised = ""
        /\ pc \in {"return", "write", "commit", "cleanup", "done"}
        /\ pc \in {"return", "write", "commit", "cleanup"} =>
             LET earlier == {calls[k] : k \in 1..(Len(calls) - 1)} \ quiet
             IN  /\ limited
                 /\ DOMAIN fresh = earlier
                 /\ requests = RequestsPerRow * (Len(calls) - 1)
                 /\ pc # "return" =>
                      \A k \in 1..Len(df) :
                         IF df[k]["Date"] \in earlier
                         THEN df[k] = fresh[df[k]["Date"]]
                         ELSE \/ pc = "cleanup"
                              \/ \E j \in 1..Len(published) :
                                    Line(df[k]) = published[j]
        /\ pc = "cleanup" => localCsv = File(to_csv(df)) /\ cloneCommits = 1
C2_Witness ==
    /\ pc = "cleanup"
    /\ limited
    /\ Len(calls) >= 3
    /\ pushed

C4_Idempotent ==
    (Returned /\ stable /\ ~limited) => to_csv(df) = published

\* C6: from a baseline in ascending date order, the returned dataset is in
\* ascending date order.
C6_AscendingDates ==
    (Returned /\ Ascending(Baseline)) => Ascending(df)

\* C8: absent a rate-limit stop, the row builder is invoked once for each
\* date from the baseline's last date minus 7 days to today, in order, for
\* every non-empty baseline.
C8_CallsFromLastMinusLookback ==
    Len(Baseline) > 0 =>
        /\ raised # "IndexError"
        /\ (Returned /\ ~limited) =>
             calls = DateRange(Baseline[Len(Baseline)]["Date"] - Lookback, today)

\* C9: an error other than the rate-limit error ends main() with that error:
\* no fitbit.csv is written, nothing is committed or pushed.
C9_OtherErrorAborts ==
    thrown \notin {"", "HTTPTooManyRequests"} =>
        /\ raised = thrown
        /\ pc = "aborted"
        /\ localCsv = NoFile
        /\ cloneCommits = 0
        /\ ~pushed
C9_Witness ==
    /\ pc = "aborted"
    /\ thrown \in {"Exception", "KeyError"}
    /\ Len(calls) >= 2
    /\ raised = thrown

\* C10: the request count get_latest_data returns is the number of API calls
\* sent upstream during the run.
C10_RequestsEqualIssued ==
    Returned => requests = issued

(* SpecRow *)
SleepPasses(p) == \A k \in SleepKeys : p.sleep[k] > 0
StepsPass(p) == p.steps.value # 0
BodyPasses(p) == \A k \in BodyKeys : p.body[k] > 0
HeartPasses(p) ==
    "restingHeartRate" \in DOMAIN p.heart /\ p.heart["restingHeartRate"] # 0
PassingFields(p) ==
    (IF SleepPasses(p) THEN SleepKeys ELSE {})
        \cup (IF StepsPass(p) THEN {"value"} ELSE {})
        \cup (IF BodyPasses(p) THEN BodyKeys ELSE {})
        \cup (IF HeartPasses(p) THEN {"restingHeartRate"} ELSE {})

\* C5: get_row_of_data returns Empty exactly when no source passes its
\* filter, and otherwise a record indexed by the date that holds exactly the
\* fields of the sources that passed; it does not fail.
C5_RowOfPassingSources ==
    rDone =>
        /\ rResult.exc = ""
        /\ rResult.hasRow <=> PassingFields(rPayload) # {}
        /\ rResult.hasRow =>
             /\ rResult.row["Date"] = rDate
             /\ DOMAIN rResult.row =
                  {"Date"} \cup {ColumnName(k) : k \in PassingFields(rPayload)}

(* SpecToken *)
NewValue(k) ==
    IF k = ACCESS THEN token.access_token
    ELSE IF k = REFRESH THEN token.refresh_token
    ELSE str(token.expires_at)
Differs(k) == k \notin DOMAIN before \/ before[k] # NewValue(k)

\* C7 as stated: refresh_cb writes a key only when the new value differs
\* from the stored one, for each of the three keys.
C7_WritesOnlyChanged ==
    \A k \in written \cap TokenKeys : Differs(k)
\* C7 amended: refresh_cb writes the access token and the refresh token
\* exactly when the new value differs from the one os.environ holds;
\* FITBIT_EXPIRES_AT is written on every call, changed or not.
C7_TokensOnlyChanged ==
    written \cap TokenKeys # {} =>
        /\ \A k \in {ACCESS, REFRESH} : k \in written <=> Differs(k)
        /\ EXPIRES \in written
C7_Witness ==
    /\ written = {REFRESH, EXPIRES}
    /\ ACCESS \in DOMAIN before
    /\ ~Differs(ACCESS)
    /\ ~Differs(EXPIRES)

=============================================================================
